---- MODULE Spec2Model ----
(***************************************************************************)
(* Model of src/eval/cindex.py: concordance_index_censored and the helpers *)
(* it calls (_check_inputs, _get_comparable, _estimate_concordance_index). *)
(*                                                                         *)
(* Conventions                                                             *)
(*  - Python arrays are 0-based, the sequences here are 1-based: the sort  *)
(*    position p of the source is position p+1 here, and a half-open range *)
(*    [i, end) of the source is the interval i..end-1 here.                *)
(*  - Estimates are integers on a grid whose step is tied_tol, so that     *)
(*    |a - b| <= tied_tol is decided exactly as in the source.             *)
(*  - numerator is kept in halves (the source adds 0.5 per risk tie), and  *)
(*    cindex is the exact fraction <<num, den>> = num/den; den = 0 stands  *)
(*    for the NaN that numpy's float64 0.0/0.0 yields.                     *)
(*  - The arguments are three arrays of one length, event_indicator of     *)
(*    dtype bool: the shape, length and dtype checks that _check_inputs    *)
(*    delegates to sklearn always pass and are not modelled.               *)
(***************************************************************************)
EXTENDS Integers, Sequences, FiniteSets, TLC

MaxN == 3
MaxTime == 3
MaxEst == 4
TiedTol == 1

VARIABLES event_indicator, event_time, estimate, pc, raised, order,
          comparable, tied_time, concordant, discordant, tied_risk,
          numerator, denominator, cindex

vars == <<event_indicator, event_time, estimate, pc, raised, order,
          comparable, tied_time, concordant, discordant, tied_risk,
          numerator, denominator, cindex>>

Abs(x) == IF x < 0 THEN -x ELSE x

Positions(n) == 1..n

\* CheckInputs with the two data-adequacy checks in the other order.
CheckInputsSwapped(ei, et) ==
    IF ~(\E k \in DOMAIN ei : ei[k]) THEN "ValueError: All samples are censored"
    ELSE IF Len(et) < 2 THEN "ValueError: Need a minimum of two samples"
    ELSE "ok"

\* _check_inputs: the data-adequacy checks, in the order the source makes them.
CheckInputs(ei, et) ==
    IF Len(et) < 2 THEN "ValueError: Need a minimum of two samples"
    ELSE IF ~(\E k \in DOMAIN ei : ei[k]) THEN "ValueError: All samples are censored"
    ELSE "ok"

\* numpy.argsort(event_time): every permutation that sorts event_time
\* ascending (the default sort kind is not stable).
Argsort(et) ==
    {p \in Permutations(Positions(Len(et))) :
        \A a \in 1..(Len(et) - 1) : et[p[a]] <= et[p[a + 1]]}

\* numpy.ones_like(estimate)
OnesLike(est) == [k \in DOMAIN est |-> 1]

\* ScanEnd that never advances: every sample is a group of its own.
ScanEndNoTies(et, ord, time_i, end) == end

\* The inner while loop of _get_comparable: advance end over the samples
\* whose time equals time_i.
RECURSIVE ScanEnd(_, _, _, _)
ScanEnd(et, ord, time_i, end) ==
    IF end <= Len(et) /\ et[ord[end]] = time_i
    THEN ScanEnd(et, ord, time_i, end + 1)
    ELSE end

\* Mask without the censored samples of the group.
MaskNoTied(n, end, censored_at_same_time) == end..n

\* mask[end:] = True ; mask[i:end] = censored_at_same_time
Mask(n, end, censored_at_same_time) ==
    (end..n) \cup censored_at_same_time

\* GroupStep in which an event is compared only with the censored samples
\* of its group that come after it in sort order.
GroupStepForwardOnly(ei, et, ord, i, cmp, tt) ==
    LET n == Len(et)
        end == ScanEnd(et, ord, et[ord[i]], i + 1)
        censored_at_same_time == {j \in i..(end - 1) : ~ei[ord[j]]}
        events == {j \in i..(end - 1) : ei[ord[j]]}
    IN <<[j \in (DOMAIN cmp) \cup events |->
             IF j \in events
             THEN Mask(n, end, {k \in censored_at_same_time : k > j})
             ELSE cmp[j]],
         tt + Cardinality({p \in events \X censored_at_same_time : p[2] > p[1]}),
         end>>

\* One iteration of the outer while loop of _get_comparable for the group
\* starting at sort position i; returns the updated <<comparable, tied_time, i>>.
GroupStep(ei, et, ord, i, cmp, tt) ==
    LET n == Len(et)
        end == ScanEnd(et, ord, et[ord[i]], i + 1)
        censored_at_same_time == {j \in i..(end - 1) : ~ei[ord[j]]}
        events == {j \in i..(end - 1) : ei[ord[j]]}
        mask == Mask(n, end, censored_at_same_time)
    IN <<[j \in (DOMAIN cmp) \cup events |->
             IF j \in events THEN mask ELSE cmp[j]],
         tt + Cardinality(events) * Cardinality(censored_at_same_time),
         end>>

\* The outer while loop of _get_comparable, from sort position i on.
RECURSIVE GetComparableFrom(_, _, _, _, _, _)
GetComparableFrom(ei, et, ord, i, cmp, tt) ==
    IF i < Len(et)
    THEN LET s == GroupStep(ei, et, ord, i, cmp, tt)
         IN GetComparableFrom(ei, et, ord, s[3], s[1], s[2])
    ELSE <<cmp, tt>>

\* _get_comparable(event_indicator, event_time, order) = <<comparable, tied_time>>
GetComparable(ei, et, ord) ==
    GetComparableFrom(ei, et, ord, 1, [j \in {} |-> {}], 0)

\* IsTie without the absolute value.
IsTieSigned(est_b, est_i) == est_b - est_i <= TiedTol

\* ties = numpy.absolute(est - est_i) <= tied_tol, for one comparable sample
IsTie(est_b, est_i) == Abs(est_b - est_i) <= TiedTol

\* IsCon with the comparison reversed.
IsConFlipped(est_b, est_i) == est_b > est_i

\* con = est < est_i, for one comparable sample
IsCon(est_b, est_i) == est_b < est_i

\* DiscordantIncrement that forgets the risk ties.
DiscordantIncrementNoTies(size, n_con, n_ties) == size - n_con

\* discordant += est.size - n_con - n_ties
DiscordantIncrement(size, n_con, n_ties) == size - n_con - n_ties

\* One iteration of the loop over comparable.items(): the accumulators after
\* the item (ind, mask) has been processed.
LoopBody(acc, est, w, ord, ind, mask) ==
    LET est_i == est[ord[ind]]
        w_i == w[ord[ind]]
        ties == {b \in mask : IsTie(est[ord[b]], est_i)}
        n_ties == Cardinality(ties)
        con == {b \in mask : IsCon(est[ord[b]], est_i)}
        n_con == Cardinality(con \ ties)
    IN [numerator |-> acc.numerator + 2 * w_i * n_con + w_i * n_ties,
        denominator |-> acc.denominator + w_i * Cardinality(mask),
        tied_risk |-> acc.tied_risk + n_ties,
        concordant |-> acc.concordant + n_con,
        discordant |-> acc.discordant
                       + DiscordantIncrement(Cardinality(mask), n_con, n_ties)]

ZeroAcc == [numerator |-> 0, denominator |-> 0, tied_risk |-> 0,
            concordant |-> 0, discordant |-> 0]

Min(S) == CHOOSE x \in S : \A y \in S : x <= y

\* The loop over comparable.items(), in insertion order (ascending key).
RECURSIVE Accumulate(_, _, _, _, _, _)
Accumulate(acc, est, w, ord, cmp, keys) ==
    IF keys = {} THEN acc
    ELSE LET ind == Min(keys)
         IN Accumulate(LoopBody(acc, est, w, ord, ind, cmp[ind]),
                       est, w, ord, cmp, keys \ {ind})

\* cindex = numerator / denominator, as the fraction <<halves, 2 * denominator>>
Divide(num, den) == <<num, 2 * den>>

NoResult == [raised |-> "", cindex |-> <<0, 1>>, concordant |-> 0,
             discordant |-> 0, tied_risk |-> 0, tied_time |-> 0]

\* _estimate_concordance_index run with a given outcome ord of argsort.
EstimateConcordanceIndex(ei, et, est, w, ord) ==
    LET gc == GetComparable(ei, et, ord)
        acc == Accumulate(ZeroAcc, est, w, ord, gc[1], DOMAIN gc[1])
    IN IF DOMAIN gc[1] = {}
       THEN [NoResult EXCEPT !.raised = "NoComparablePairException"]
       ELSE [raised |-> "",
             cindex |-> Divide(acc.numerator, acc.denominator),
             concordant |-> acc.concordant,
             discordant |-> acc.discordant,
             tied_risk |-> acc.tied_risk,
             tied_time |-> gc[2]]

\* concordance_index_censored run with a given outcome ord of argsort.
ConcordanceIndexCensored(ei, et, est, ord) ==
    IF CheckInputs(ei, et) # "ok"
    THEN [NoResult EXCEPT !.raised = CheckInputs(ei, et)]
    ELSE EstimateConcordanceIndex(ei, et, est, OnesLike(est), ord)

\* Element-wise negation of an estimate array.
Negate(est) == [k \in DOMAIN est |-> -est[k]]

----------------------------------------------------------------------------
\* The arguments of one call of concordance_index_censored: three arrays of
\* the same length n.
Init ==
    /\ \E n \in 1..MaxN :
          /\ event_indicator \in [Positions(n) -> BOOLEAN]
          /\ event_time \in [Positions(n) -> 1..MaxTime]
          /\ estimate \in [Positions(n) -> 0..MaxEst]
    /\ pc = "check_inputs"
    /\ raised = ""
    /\ order = <<>>
    /\ comparable = [j \in {} |-> {}]
    /\ tied_time = 0
    /\ concordant = 0
    /\ discordant = 0
    /\ tied_risk = 0
    /\ numerator = 0
    /\ denominator = 0
    /\ cindex = <<0, 1>>

\* concordance_index_censored, lines 202-205: validate, or raise.
CheckInputsStep ==
    /\ pc = "check_inputs"
    /\ IF CheckInputs(event_indicator, event_time) = "ok"
       THEN /\ pc' = "estimate"
            /\ raised' = raised
       ELSE /\ pc' = "raised"
            /\ raised' = CheckInputs(event_indicator, event_time)
    /\ UNCHANGED <<event_indicator, event_time, estimate, order, comparable,
                   tied_time, concordant, discordant, tied_risk, numerator,
                   denominator, cindex>>

\* _estimate_concordance_index, lines 114-120: argsort, _get_comparable and
\* the empty-mapping guard.
EstimateSetup ==
    /\ pc = "estimate"
    /\ \E ord \in Argsort(event_time) :
          \E gc \in {GetComparable(event_indicator, event_time, ord)} :
             /\ order' = ord
             /\ comparable' = gc[1]
             /\ tied_time' = gc[2]
             /\ IF DOMAIN gc[1] = {}
                THEN /\ pc' = "raised"
                     /\ raised' = "NoComparablePairException"
                ELSE /\ pc' = "accumulate"
                     /\ raised' = raised
    /\ UNCHANGED <<event_indicator, event_time, estimate, concordant,
                   discordant, tied_risk, numerator, denominator, cindex>>

\* _estimate_concordance_index, lines 122-150: the loop over
\* comparable.items(), the division and the return.
AccumulateAndReturn ==
    /\ pc = "accumulate"
    /\ IF \E ind \in DOMAIN comparable : ~event_indicator[order[ind]]
       THEN /\ pc' = "raised"
            /\ raised' = "AssertionError"
            /\ UNCHANGED <<concordant, discordant, tied_risk, numerator,
                           denominator, cindex>>
       ELSE \E acc \in {Accumulate(ZeroAcc, estimate, OnesLike(estimate), order,
                                  comparable, DOMAIN comparable)} :
               /\ numerator' = acc.numerator
               /\ denominator' = acc.denominator
               /\ tied_risk' = acc.tied_risk
               /\ concordant' = acc.concordant
               /\ discordant' = acc.discordant
               /\ cindex' = Divide(acc.numerator, acc.denominator)
               /\ pc' = "returned"
               /\ raised' = raised
    /\ UNCHANGED <<event_indicator, event_time, estimate, order, comparable,
                   tied_time>>

Next == CheckInputsStep \/ EstimateSetup \/ AccumulateAndReturn

Spec == Init /\ [][Next]_vars

----------------------------------------------------------------------------
\* Vocabulary of the properties, stated on the samples themselves (original
\* indices), independently of the sort order and of the masks.

Samples == DOMAIN event_time

Valid == CheckInputs(event_indicator, event_time) = "ok"

\* Sample b is comparable to the uncensored sample a.
ComparableTo(a, b) ==
    /\ event_indicator[a]
    /\ \/ event_time[b] > event_time[a]
       \/ event_time[b] = event_time[a] /\ ~event_indicator[b]

ComparablePairs == {p \in Samples \X Samples : ComparableTo(p[1], p[2])}

\* Comparable pairs whose two samples share the same time (event, censored).
TiedTimePairs == {p \in ComparablePairs : event_time[p[1]] = event_time[p[2]]}

\* Comparable pairs at two different times.
StrictPairs == {p \in ComparablePairs : event_time[p[1]] < event_time[p[2]]}

RiskTied(p) == Abs(estimate[p[2]] - estimate[p[1]]) <= TiedTol

RECURSIVE SumMasks(_, _)
SumMasks(cmp, keys) ==
    IF keys = {} THEN 0
    ELSE LET k == Min(keys)
         IN Cardinality(cmp[k]) + SumMasks(cmp, keys \ {k})

NothingComputed ==
    /\ order = <<>>
    /\ DOMAIN comparable = {}
    /\ cindex = <<0, 1>>
    /\ numerator = 0
    /\ denominator = 0

----------------------------------------------------------------------------
\* C1: on every validated input the division is never made with a zero
\* denominator: a call that returns has accumulated denominator > 0, and data
\* without any comparable pair ends in NoComparablePairException.
C1_NoZeroDenominator ==
    /\ pc = "returned" => denominator > 0
    /\ (pc \in {"returned", "raised"} /\ Valid /\ ComparablePairs = {})
          => (pc = "raised" /\ raised = "NoComparablePairException")

\* C2: on every valid input the returned cindex is a number in [0, 1]:
\* 0 <= numerator <= denominator with denominator non-zero.
C2_Range ==
    pc = "returned" =>
        /\ cindex[2] # 0
        /\ 0 <= cindex[1]
        /\ cindex[1] <= cindex[2]

\* C3 as stated: the only uncensored sample has an estimate lower, by more
\* than tied_tol, than every sample comparable to it (there is at least one);
\* then tied_risk = 0 and cindex = 1.
C3_PerfectRankingLowest ==
    (/\ pc = "returned"
     /\ Cardinality({a \in Samples : event_indicator[a]}) = 1
     /\ ComparablePairs # {}
     /\ \A p \in ComparablePairs : estimate[p[2]] - estimate[p[1]] > TiedTol)
    => (tied_risk = 0 /\ cindex[2] # 0 /\ cindex[1] = cindex[2])

\* C3 amended: the only uncensored sample has an estimate higher, by more
\* than tied_tol, than every sample comparable to it (there is at least one);
\* then tied_risk = 0 and cindex = 1.
C3_PerfectRankingHighest ==
    (/\ pc = "returned"
     /\ Cardinality({a \in Samples : event_indicator[a]}) = 1
     /\ ComparablePairs # {}
     /\ \A p \in ComparablePairs : estimate[p[1]] - estimate[p[2]] > TiedTol)
    => (tied_risk = 0 /\ cindex[2] # 0 /\ cindex[1] = cindex[2]
        /\ discordant = 0 /\ concordant = Cardinality(ComparablePairs))

C3_Witness ==
    /\ pc = "returned"
    /\ Cardinality({a \in Samples : event_indicator[a]}) = 1
    /\ Cardinality(ComparablePairs) >= 2
    /\ \A p \in ComparablePairs : estimate[p[1]] - estimate[p[2]] > TiedTol

\* C4 as stated: an (uncensored, censored) pair at the same time is counted
\* in tied_time only: the denominator and the three pair counters cover the
\* comparable pairs at different times and nothing else.
C4_TiedTimeExcluded ==
    pc = "returned" =>
        /\ tied_time = Cardinality(TiedTimePairs)
        /\ denominator = Cardinality(StrictPairs)
        /\ concordant + discordant + tied_risk = Cardinality(StrictPairs)

\* C4 amended: an (uncensored, censored) pair at the same time is counted in
\* tied_time and is also a comparable pair: it is in the mask of its
\* uncensored sample, it is counted in the denominator, and it is counted in
\* the one of concordant, discordant, tied_risk that its estimates select.
C4_TiedTimeCounted ==
    pc = "returned" =>
        /\ tied_time = Cardinality(TiedTimePairs)
        /\ denominator = Cardinality(StrictPairs) + Cardinality(TiedTimePairs)
        /\ \A a \in DOMAIN order : \A b \in DOMAIN order :
              (/\ event_indicator[order[a]] /\ ~event_indicator[order[b]]
               /\ event_time[order[a]] = event_time[order[b]])
                 => (a \in DOMAIN comparable /\ b \in comparable[a])
        /\ tied_risk = Cardinality({p \in ComparablePairs : RiskTied(p)})
        /\ concordant = Cardinality({p \in ComparablePairs :
                            ~RiskTied(p) /\ estimate[p[2]] < estimate[p[1]]})
        /\ discordant = Cardinality({p \in ComparablePairs :
                            ~RiskTied(p) /\ estimate[p[2]] > estimate[p[1]]})

C4_Witness ==
    /\ pc = "returned"
    /\ tied_time > 0
    /\ StrictPairs # {}
    /\ \E p \in TiedTimePairs : ~RiskTied(p)

\* C5: pair conservation: when the call returns, concordant + discordant +
\* tied_risk equals the number of true mask entries, which equals the
\* denominator (unit weights), and no counter is negative.
C5_PairConservation ==
    pc = "returned" =>
        /\ concordant + discordant + tied_risk
              = SumMasks(comparable, DOMAIN comparable)
        /\ SumMasks(comparable, DOMAIN comparable) = denominator
        /\ concordant >= 0
        /\ discordant >= 0
        /\ tied_risk >= 0

C5_Witness ==
    /\ pc = "returned"
    /\ concordant > 0
    /\ discordant > 0
    /\ tied_risk > 0

\* C6: symmetry under negation: when the call returns with at least one
\* comparable pair and tied_risk = 0, the call on the negated estimates
\* returns 1 - cindex, with concordant and discordant swapped and tied_time
\* unchanged, whatever order its argsort yields.
C6_NegationSymmetry ==
    (pc = "returned" /\ denominator > 0 /\ tied_risk = 0) =>
        \A o \in Argsort(event_time) :
            ConcordanceIndexCensored(event_indicator, event_time,
                                     Negate(estimate), o)
               = [raised |-> "",
                  cindex |-> <<cindex[2] - cindex[1], cindex[2]>>,
                  concordant |-> discordant,
                  discordant |-> concordant,
                  tied_risk |-> 0,
                  tied_time |-> tied_time]

C6_Witness ==
    /\ pc = "returned"
    /\ tied_risk = 0
    /\ concordant > 0
    /\ discordant > 0

\* C7: all-tied risk: when every comparable sample's estimate is within
\* tied_tol of the estimate of the uncensored sample it is compared to, the
\* call returns cindex = 0.5 with concordant = 0 and discordant = 0.
C7_AllTiedHalf ==
    (pc = "returned" /\ \A p \in ComparablePairs : RiskTied(p)) =>
        /\ cindex[2] # 0
        /\ 2 * cindex[1] = cindex[2]
        /\ concordant = 0
        /\ discordant = 0

\* C8: a 1-sample input fails with "Need a minimum of two samples" whatever
\* its event indicator, an all-censored input of length >= 2 fails with "All
\* samples are censored"; both fail in _check_inputs, before any sorting or
\* pair enumeration, and no cindex is produced.
C8_InadequateData ==
    pc # "check_inputs" =>
        /\ Len(event_time) = 1 =>
              /\ pc = "raised"
              /\ raised = "ValueError: Need a minimum of two samples"
              /\ NothingComputed
        /\ (Len(event_time) >= 2 /\ \A k \in Samples : ~event_indicator[k]) =>
              /\ pc = "raised"
              /\ raised = "ValueError: All samples are censored"
              /\ NothingComputed

C8_Witness ==
    /\ pc = "raised"
    /\ Len(event_time) = 1
    /\ ~event_indicator[1]
    /\ raised = "ValueError: Need a minimum of two samples"

\* C9: comparable-set characterisation: once _get_comparable has run on a
\* sorting order, sort position b is in the mask of sort position a iff the
\* sample at a is uncensored and either time(b) > time(a), or time(b) =
\* time(a) and the sample at b is censored (an absent mask is empty); only
\* uncensored positions are keys.
C9_ComparableSet ==
    order # <<>> =>
        /\ \A a \in DOMAIN order : \A b \in DOMAIN order :
              (a \in DOMAIN comparable /\ b \in comparable[a])
                 <=> ComparableTo(order[a], order[b])
        /\ \A a \in DOMAIN comparable : event_indicator[order[a]]
        /\ \A a \in DOMAIN comparable : comparable[a] \subseteq DOMAIN order

C9_Witness ==
    /\ order # <<>>
    /\ \E a \in DOMAIN comparable : \E b \in comparable[a] :
          b < a /\ event_time[order[b]] = event_time[order[a]]
    /\ \E a \in DOMAIN order : \E b \in DOMAIN order :
          /\ a # b
          /\ event_indicator[order[a]] /\ event_indicator[order[b]]
          /\ event_time[order[a]] = event_time[order[b]]

\* The stable argsort: samples with equal time keep their input order.
StableOrder ==
    CHOOSE o \in Argsort(event_time) :
        \A a \in DOMAIN o : \A b \in DOMAIN o :
            (a < b /\ event_time[o[a]] = event_time[o[b]]) => o[a] < o[b]

\* C10: independence from tie ordering: whatever sorting order argsort has
\* produced, the outcome of the call (exception, or cindex, concordant,
\* discordant, tied_risk, tied_time) is the outcome that
\* _estimate_concordance_index yields with the stable sorting order; hence
\* all sorting orders yield one and the same outcome.
C10_OrderIndependent ==
    (pc \in {"returned", "raised"} /\ Valid) =>
        EstimateConcordanceIndex(event_indicator, event_time, estimate,
                                 OnesLike(estimate), StableOrder)
           = [raised |-> raised,
              cindex |-> cindex,
              concordant |-> concordant,
              discordant |-> discordant,
              tied_risk |-> tied_risk,
              tied_time |-> tied_time]

C10_Witness ==
    /\ pc = "returned"
    /\ tied_time > 0
    /\ \E a \in DOMAIN comparable : \E b \in comparable[a] :
          b < a /\ event_time[order[b]] = event_time[order[a]]
    /\ order # StableOrder

----------------------------------------------------------------------------
\* Auxiliary facts about the returns with a zero denominator (C1, C2, C7).

\* The call returns with denominator = 0 exactly when the data has no
\* comparable pair.
ZeroDenominatorOnlyWithoutPairs ==
    pc = "returned" => (denominator = 0 <=> ComparablePairs = {})

\* With a positive denominator the returned cindex lies in [0, 1].
RangeWithPositiveDenominator ==
    (pc = "returned" /\ denominator > 0) =>
        (0 <= cindex[1] /\ cindex[1] <= cindex[2])

\* With a positive denominator, all-tied risk yields exactly one half.
AllTiedHalfWithPositiveDenominator ==
    (pc = "returned" /\ denominator > 0
       /\ \A p \in ComparablePairs : RiskTied(p)) =>
        (2 * cindex[1] = cindex[2] /\ concordant = 0 /\ discordant = 0)

====
